---- MODULE Spec2Model ----
(***************************************************************************)
(* Model of the stock classifier of stock_analyzer: the criteria tables,   *)
(* StockAnalyzer.classify_stock, calculate_ratios, get_ratio_explanation,  *)
(* generate_report and analyze_multiple_stocks, and fetch_stock_data as    *)
(* far as the analyzer depends on it.                                      *)
(*                                                                         *)
(* Numbers.  Ratio values are Python floats.  The model keeps them as      *)
(* integers in thousandths (0.15 is 150, 15 is 15000); float('inf') is     *)
(* INF, a number above every value the model draws.  The percentages of    *)
(* classify_stock are quotients of small counts; the model compares them   *)
(* exactly by cross-multiplication (the float comparison agrees with the   *)
(* exact one for every count vector of up to 24 rated ratios).             *)
(* A dict is a function on its set of keys.  None among numbers is the     *)
(* number None, below -INF and so outside every range; None in the place   *)
(* of an object (a dict, a StockData, a DataFrame) is NoneObject.          *)
(***************************************************************************)
EXTENDS Integers, Sequences, FiniteSets, TLC

\* float('inf') of the criteria tables, in thousandths
INF == 1000000000

None == -2000000000

NoneObject == [none |-> TRUE]

\* {} : the empty dict
EmptyDict == [k \in {} |-> None]

ANALYSIS_TYPES == {"value", "growth_momentum"}

VALUE_CRITERIA ==
  [
     pe_ratio |-> << <<"great", 0, 15000>>, <<"good", 15000, 25000>>, <<"no_buy", 25000, INF>> >>,
     pb_ratio |-> << <<"great", 0, 1500>>, <<"good", 1500, 3000>>, <<"no_buy", 3000, INF>> >>,
     ps_ratio |-> << <<"great", 0, 2000>>, <<"good", 2000, 4000>>, <<"no_buy", 4000, INF>> >>,
     debt_to_equity |-> << <<"great", 0, 500>>, <<"good", 500, 1500>>, <<"no_buy", 1500, INF>> >>,
     roe |-> << <<"great", 150, INF>>, <<"good", 100, 150>>, <<"no_buy", 0, 100>> >>,
     current_ratio |-> << <<"great", 1500, 3000>>, <<"good", 1000, 1500>>, <<"no_buy", 0, 1000>> >>,
     dividend_yield |-> << <<"great", 30, INF>>, <<"good", 10, 30>>, <<"no_buy", 0, 10>> >>,
     profit_margin |-> << <<"great", 150, INF>>, <<"good", 80, 150>>, <<"no_buy", 0, 80>> >>,
     peg_ratio |-> << <<"great", 0, 1000>>, <<"good", 1000, 2000>>, <<"no_buy", 2000, INF>> >>
  ]

GROWTH_MOMENTUM_CRITERIA ==
  [
     revenue_growth |-> << <<"great", 200, INF>>, <<"good", 100, 200>>, <<"no_buy", 0, 100>> >>,
     earnings_growth |-> << <<"great", 200, INF>>, <<"good", 100, 200>>, <<"no_buy", 0, 100>> >>,
     price_performance_6m |-> << <<"great", 150, INF>>, <<"good", 50, 150>>, <<"no_buy", -INF, 50>> >>,
     price_performance_1y |-> << <<"great", 250, INF>>, <<"good", 100, 250>>, <<"no_buy", -INF, 100>> >>,
     eps_growth |-> << <<"great", 150, INF>>, <<"good", 80, 150>>, <<"no_buy", 0, 80>> >>,
     gross_margin |-> << <<"great", 400, INF>>, <<"good", 250, 400>>, <<"no_buy", 0, 250>> >>,
     operating_margin |-> << <<"great", 200, INF>>, <<"good", 100, 200>>, <<"no_buy", 0, 100>> >>,
     relative_strength |-> << <<"great", 100, INF>>, <<"good", 0, 100>>, <<"no_buy", -INF, 0>> >>,
     analyst_recommendation |-> << <<"great", 1000, 2500>>, <<"good", 2500, 3500>>, <<"no_buy", 3500, 5000>> >>,
     pe_growth |-> << <<"great", 800, INF>>, <<"good", 500, 800>>, <<"no_buy", 0, 500>> >>
  ]

VALUE_DESCRIPTIONS ==
  [
     pe_ratio |-> [name |-> "Price-to-Earnings Ratio",
        interpretation |-> "Lower is better for value stocks",
        ideal |-> "Below 15 is excellent for value investing, suggesting potential undervaluation."],
     pb_ratio |-> [name |-> "Price-to-Book Ratio",
        interpretation |-> "Lower is better for value stocks",
        ideal |-> "Below 1.5 is considered excellent for value investing."],
     ps_ratio |-> [name |-> "Price-to-Sales Ratio",
        interpretation |-> "Lower is better",
        ideal |-> "Below 2 is excellent for value investing, particularly in established industries."],
     debt_to_equity |-> [name |-> "Debt-to-Equity Ratio",
        interpretation |-> "Lower is generally better",
        ideal |-> "Below 0.5 is excellent, indicating conservative financial management."],
     roe |-> [name |-> "Return on Equity",
        interpretation |-> "Higher is better",
        ideal |-> "Above 15% shows excellent profitability and efficiency."],
     current_ratio |-> [name |-> "Current Ratio",
        interpretation |-> "Higher is generally better",
        ideal |-> "Between 1.5 and 3.0 is ideal, showing good liquidity without excessive idle capital."],
     dividend_yield |-> [name |-> "Dividend Yield",
        interpretation |-> "Higher is generally better for income investors",
        ideal |-> "Above 3% is excellent for value and income investing."],
     profit_margin |-> [name |-> "Profit Margin",
        interpretation |-> "Higher is better",
        ideal |-> "Above 15% indicates strong profitability and competitive advantages."],
     peg_ratio |-> [name |-> "Price/Earnings to Growth Ratio",
        interpretation |-> "Lower is better",
        ideal |-> "Below 1.0 suggests the stock may be undervalued relative to its growth rate."]
  ]

GROWTH_MOMENTUM_DESCRIPTIONS ==
  [
     revenue_growth |-> [name |-> "Revenue Growth Rate",
        interpretation |-> "Higher is better for growth stocks",
        ideal |-> "Above 20% annually is excellent, showing rapid expansion."],
     earnings_growth |-> [name |-> "Earnings Growth Rate",
        interpretation |-> "Higher is better",
        ideal |-> "Above 20% annually shows strong profit expansion."],
     price_performance_6m |-> [name |-> "6-Month Price Performance",
        interpretation |-> "Higher is better for momentum stocks",
        ideal |-> "Above 15% in 6 months indicates strong upward momentum."],
     price_performance_1y |-> [name |-> "1-Year Price Performance",
        interpretation |-> "Higher is better for momentum strategies",
        ideal |-> "Above 25% annually shows sustained price strength."],
     eps_growth |-> [name |-> "EPS Growth Rate",
        interpretation |-> "Higher is better",
        ideal |-> "Above 15% annually indicates strong per-share profit growth."],
     gross_margin |-> [name |-> "Gross Margin",
        interpretation |-> "Higher is better",
        ideal |-> "Above 40% suggests strong product margins and pricing power."],
     operating_margin |-> [name |-> "Operating Margin",
        interpretation |-> "Higher is better",
        ideal |-> "Above 20% indicates efficient operations and scalable business model."],
     relative_strength |-> [name |-> "Relative Strength",
        interpretation |-> "Higher is better for momentum stocks",
        ideal |-> "Outperforming the market by 10% or more is excellent."],
     analyst_recommendation |-> [name |-> "Analyst Recommendation",
        interpretation |-> "Lower is better",
        ideal |-> "Below 2.5 (between Buy and Strong Buy) suggests analyst confidence."],
     pe_growth |-> [name |-> "P/E to Growth Score",
        interpretation |-> "Higher is better for growth stocks",
        ideal |-> "Above 0.8 suggests good balance of growth and valuation."]
  ]

\* insertion order of the keys of the two tables and of the ratios dict
VALUE_KEYS ==
  << "pe_ratio", "pb_ratio", "ps_ratio", "debt_to_equity", "roe",
     "current_ratio", "dividend_yield", "profit_margin", "peg_ratio" >>

GROWTH_KEYS ==
  << "revenue_growth", "earnings_growth", "price_performance_6m",
     "price_performance_1y", "eps_growth", "gross_margin", "operating_margin",
     "relative_strength", "analyst_recommendation", "pe_growth" >>

\* order in which calculate_ratios inserts the keys into ratios
RATIO_KEYS ==
  VALUE_KEYS \o
  << "price_performance_6m", "price_performance_1y", "relative_strength",
     "revenue_growth", "earnings_growth", "eps_growth", "gross_margin",
     "operating_margin", "analyst_recommendation", "pe_growth" >>

Range(s) == { s[i] : i \in 1..Len(s) }

\* dict[key] = value
Put(d, k, v) == (k :> v) @@ d

\* dict.get(key, default)
Get(d, k, default) == IF k \in DOMAIN d THEN d[k] ELSE default

\* the items of a dict, in the insertion order order
Items(d, order) == SelectSeq(order, LAMBDA k : k \in DOMAIN d)

(***************************************************************************)
(* StockAnalyzer.__init__                                                  *)
(***************************************************************************)
NewAnalyzer ==
  [ value_criteria               |-> VALUE_CRITERIA,
    growth_momentum_criteria     |-> GROWTH_MOMENTUM_CRITERIA,
    classification_criteria      |-> VALUE_CRITERIA,
    value_descriptions           |-> VALUE_DESCRIPTIONS,
    growth_momentum_descriptions |-> GROWTH_MOMENTUM_DESCRIPTIONS,
    ratio_descriptions           |-> VALUE_DESCRIPTIONS ]

(***************************************************************************)
(* StockAnalyzer.classify_stock                                            *)
(***************************************************************************)
INSUFFICIENT == "Insufficient data for classification"

NoMatch == "no_match"

\* for rating, (min_val, max_val) in ratio_criteria.items():
\*     if min_val <= ratio_value < max_val: ... break
\* variant: the upper bound of a range taken as inclusive
RECURSIVE RateRatio_inclusive(_, _, _)
RateRatio_inclusive(ratio_criteria, ratio_value, i) ==
  IF i > Len(ratio_criteria) THEN NoMatch
  ELSE IF ratio_criteria[i][2] <= ratio_value /\ ratio_value <= ratio_criteria[i][3]
       THEN ratio_criteria[i][1]
       ELSE RateRatio_inclusive(ratio_criteria, ratio_value, i + 1)

RECURSIVE RateRatio(_, _, _)
RateRatio(ratio_criteria, ratio_value, i) ==
  IF i > Len(ratio_criteria) THEN NoMatch
  ELSE IF ratio_criteria[i][2] <= ratio_value /\ ratio_value < ratio_criteria[i][3]
       THEN ratio_criteria[i][1]
       ELSE RateRatio(ratio_criteria, ratio_value, i + 1)

\* for ratio_name, ratio_value in ratios.items(): ...
RECURSIVE RateLoop(_, _, _, _, _)
RateLoop(items, ratios, criteria, i, acc) ==
  IF i > Len(items) THEN acc
  ELSE LET ratio_name  == items[i]
           ratio_value == ratios[ratio_name]
       IN  IF ratio_value # None /\ ratio_name \in DOMAIN criteria
           THEN LET rating == RateRatio(criteria[ratio_name], ratio_value, 1)
                IN  IF rating # NoMatch
                    THEN RateLoop(items, ratios, criteria, i + 1,
                           [ rating_counts  |->
                               [acc.rating_counts EXCEPT ![rating] = @ + 1],
                             rating_details |->
                               Put(acc.rating_details, ratio_name, rating) ])
                    ELSE RateLoop(items, ratios, criteria, i + 1, acc)
           ELSE RateLoop(items, ratios, criteria, i + 1, acc)

\* x / total >= tenths / 10, and x / total <= tenths / 10
\* variant: a strict comparison
PercentGE_strict(x, total, tenths) == 10 * x > tenths * total

PercentGE(x, total, tenths) == 10 * x >= tenths * total
PercentLE(x, total, tenths) == 10 * x <= tenths * total

\* variant: the table the last report left in self.classification_criteria
SelectCriteria_current(self, analysis_type) == self.classification_criteria

\* variant: the two tables merged into one
SelectCriteria_merged(self, analysis_type) ==
  self.value_criteria @@ self.growth_momentum_criteria

\* the criteria table classify_stock selects
SelectCriteria(self, analysis_type) ==
  IF analysis_type = "value" THEN self.value_criteria
  ELSE self.growth_momentum_criteria

\* variant: GOOD BUY granted without the limit on no_buy ratings
FinalClassification_nolimit(rating_counts, total_rated, analysis_type) ==
  LET great  == rating_counts["great"]
      good   == rating_counts["good"]
      no_buy == rating_counts["no_buy"]
  IN  IF analysis_type = "value"
      THEN IF PercentGE(great, total_rated, 5) /\ PercentLE(no_buy, total_rated, 2)
           THEN "GREAT BUY"
           ELSE IF PercentGE(great + good, total_rated, 6)
                THEN "GOOD BUY"
                ELSE "NO BUY"
      ELSE IF PercentGE(great, total_rated, 4) /\ PercentLE(no_buy, total_rated, 3)
           THEN "GREAT GROWTH OPPORTUNITY"
           ELSE IF PercentGE(great + good, total_rated, 5)
                   /\ PercentLE(no_buy, total_rated, 4)
                THEN "GOOD GROWTH OPPORTUNITY"
                ELSE "POOR GROWTH OPPORTUNITY"

\* variant: GREAT GROWTH OPPORTUNITY granted up to 10% of no_buy ratings only
FinalClassification_strictgrowth(rating_counts, total_rated, analysis_type) ==
  LET great  == rating_counts["great"]
      good   == rating_counts["good"]
      no_buy == rating_counts["no_buy"]
  IN  IF analysis_type = "value"
      THEN IF PercentGE(great, total_rated, 5) /\ PercentLE(no_buy, total_rated, 2)
           THEN "GREAT BUY"
           ELSE IF PercentGE(great + good, total_rated, 6)
                   /\ PercentLE(no_buy, total_rated, 3)
                THEN "GOOD BUY"
                ELSE "NO BUY"
      ELSE IF PercentGE(great, total_rated, 4) /\ PercentLE(no_buy, total_rated, 1)
           THEN "GREAT GROWTH OPPORTUNITY"
           ELSE IF PercentGE(great + good, total_rated, 5)
                   /\ PercentLE(no_buy, total_rated, 4)
                THEN "GOOD GROWTH OPPORTUNITY"
                ELSE "POOR GROWTH OPPORTUNITY"

\* variant: the middle label granted on the share of good ratings alone
FinalClassification_goodonly(rating_counts, total_rated, analysis_type) ==
  LET great  == rating_counts["great"]
      good   == rating_counts["good"]
      no_buy == rating_counts["no_buy"]
  IN  IF analysis_type = "value"
      THEN IF PercentGE(great, total_rated, 5) /\ PercentLE(no_buy, total_rated, 2)
           THEN "GREAT BUY"
           ELSE IF PercentGE(good, total_rated, 6)
                   /\ PercentLE(no_buy, total_rated, 3)
                THEN "GOOD BUY"
                ELSE "NO BUY"
      ELSE IF PercentGE(great, total_rated, 4) /\ PercentLE(no_buy, total_rated, 3)
           THEN "GREAT GROWTH OPPORTUNITY"
           ELSE IF PercentGE(good, total_rated, 5)
                   /\ PercentLE(no_buy, total_rated, 4)
                THEN "GOOD GROWTH OPPORTUNITY"
                ELSE "POOR GROWTH OPPORTUNITY"

\* the final classification of classify_stock from the rating counts
FinalClassification(rating_counts, total_rated, analysis_type) ==
  LET great  == rating_counts["great"]
      good   == rating_counts["good"]
      no_buy == rating_counts["no_buy"]
  IN  IF analysis_type = "value"
      THEN IF PercentGE(great, total_rated, 5) /\ PercentLE(no_buy, total_rated, 2)
           THEN "GREAT BUY"
           ELSE IF PercentGE(great + good, total_rated, 6)
                   /\ PercentLE(no_buy, total_rated, 3)
                THEN "GOOD BUY"
                ELSE "NO BUY"
      ELSE IF PercentGE(great, total_rated, 4) /\ PercentLE(no_buy, total_rated, 3)
           THEN "GREAT GROWTH OPPORTUNITY"
           ELSE IF PercentGE(great + good, total_rated, 5)
                   /\ PercentLE(no_buy, total_rated, 4)
                THEN "GOOD GROWTH OPPORTUNITY"
                ELSE "POOR GROWTH OPPORTUNITY"

\* variant: no check for a stock without any rated ratio
ClassifyStock_nocheck(self, ratios, analysis_type) ==
  IF ratios = NoneObject \/ DOMAIN ratios = {}
  THEN << INSUFFICIENT, EmptyDict >>
  ELSE LET criteria == SelectCriteria(self, analysis_type)
           acc == RateLoop(Items(ratios, RATIO_KEYS), ratios, criteria, 1,
                    [ rating_counts  |-> [great |-> 0, good |-> 0, no_buy |-> 0],
                      rating_details |-> EmptyDict ])
           total_rated == acc.rating_counts["great"] + acc.rating_counts["good"]
                            + acc.rating_counts["no_buy"]
       IN  << FinalClassification(acc.rating_counts, total_rated, analysis_type),
              acc.rating_details >>

\* classify_stock: the pair (classification, rating_details)
ClassifyStock(self, ratios, analysis_type) ==
  IF ratios = NoneObject \/ DOMAIN ratios = {}
  THEN << INSUFFICIENT, EmptyDict >>
  ELSE LET criteria == SelectCriteria(self, analysis_type)
           acc == RateLoop(Items(ratios, RATIO_KEYS), ratios, criteria, 1,
                    [ rating_counts  |-> [great |-> 0, good |-> 0, no_buy |-> 0],
                      rating_details |-> EmptyDict ])
           total_rated == acc.rating_counts["great"] + acc.rating_counts["good"]
                            + acc.rating_counts["no_buy"]
       IN  IF total_rated = 0
           THEN << INSUFFICIENT, acc.rating_details >>
           ELSE << FinalClassification(acc.rating_counts, total_rated, analysis_type),
                   acc.rating_details >>

(***************************************************************************)
(* fetch_stock_data.  The data provider is an input: api holds what each   *)
(* of its four requests yields, a value or Raise.  A DataFrame of prices   *)
(* is the record of its Close column, a financial statement is the dict    *)
(* of its latest column; the empty frame pd.DataFrame() is EmptyFrame or   *)
(* EmptyDict.                                                              *)
(***************************************************************************)
Raise == [raise |-> TRUE]

EmptyFrame == [Close |-> << >>]

EmptyStatements ==
  [income_stmt |-> EmptyDict, balance_sheet |-> EmptyDict, cash_flow |-> EmptyDict]

\* the try block of the three financial statements raised
StatementsFailed(api) ==
  IF api.statements = Raise THEN TRUE
  ELSE \E part \in DOMAIN api.statements : api.statements[part] = Raise

\* variant: the price history requested outside a try block of its own, so
\* that its failure ends in the handler of the whole function
FetchStockData_outerhandler(ticker, api) ==
  IF api.info = Raise \/ DOMAIN api.info = {} \/ api.history = Raise
  THEN NoneObject
  ELSE [ ticker          |-> ticker,
         info            |-> api.info,
         income_stmt     |-> IF StatementsFailed(api) THEN EmptyDict
                             ELSE api.statements.income_stmt,
         balance_sheet   |-> IF StatementsFailed(api) THEN EmptyDict
                             ELSE api.statements.balance_sheet,
         cash_flow       |-> IF StatementsFailed(api) THEN EmptyDict
                             ELSE api.statements.cash_flow,
         historical_data |-> api.history,
         market_data     |-> IF api.market = Raise THEN EmptyFrame ELSE api.market,
         current_price   |->
           Get(api.info, "currentPrice",
               Get(api.info, "regularMarketPrice", None)) ]

FetchStockData(ticker, api) ==
  IF api.info = Raise \/ DOMAIN api.info = {}
  THEN NoneObject
  ELSE LET stmts == IF StatementsFailed(api) THEN EmptyStatements
                    ELSE api.statements
           historical_data == IF api.history = Raise THEN EmptyFrame ELSE api.history
           market_data     == IF api.market = Raise THEN EmptyFrame ELSE api.market
       IN  [ ticker          |-> ticker,
             info            |-> api.info,
             income_stmt     |-> stmts.income_stmt,
             balance_sheet   |-> stmts.balance_sheet,
             cash_flow       |-> stmts.cash_flow,
             historical_data |-> historical_data,
             market_data     |-> market_data,
             current_price   |->
               Get(api.info, "currentPrice",
                   Get(api.info, "regularMarketPrice", None)) ]

(***************************************************************************)
(* StockAnalyzer.calculate_ratios                                          *)
(***************************************************************************)
\* ~6 months of trading days
TRADING_DAYS_6M == 126

Min(a, b) == IF a <= b THEN a ELSE b

\* a / b of two numbers in the same unit, in thousandths (integer part of
\* the thousandths)
Quot(a, b) == IF a >= 0 THEN (a * 1000) \div b ELSE -(((-a) * 1000) \div b)

\* Python truthiness of a number or None
Truthy(x) == x # None /\ x # 0

PricePerformance(frame, start_idx) ==
  LET start_price == frame.Close[start_idx]
      end_price   == frame.Close[Len(frame.Close)]
  IN  IF Truthy(start_price) THEN Quot(end_price - start_price, start_price)
      ELSE None

\* the nine ratios computed for both analysis types
BasicRatios(info) ==
  [ pe_ratio       |-> Get(info, "trailingPE", Get(info, "forwardPE", None)),
    pb_ratio       |-> Get(info, "priceToBook", None),
    ps_ratio       |-> Get(info, "priceToSalesTrailing12Months", None),
    debt_to_equity |-> IF Truthy(Get(info, "debtToEquity", None))
                       THEN info["debtToEquity"] \div 100 ELSE None,
    roe            |-> Get(info, "returnOnEquity", None),
    current_ratio  |-> Get(info, "currentRatio", None),
    dividend_yield |-> Get(info, "dividendYield", 0),
    profit_margin  |-> Get(info, "profitMargins", None),
    peg_ratio      |-> Get(info, "pegRatio", None) ]

\* the price performance metrics of the growth_momentum analysis
MomentumRatios(ratios, historical_data, market_data) ==
  IF historical_data = EmptyFrame THEN ratios
  ELSE LET n   == Len(historical_data.Close)
           six_month_ago_idx == n - Min(n, TRADING_DAYS_6M)
           r1  == IF six_month_ago_idx >= 0 /\ six_month_ago_idx < n
                  THEN Put(ratios, "price_performance_6m",
                           PricePerformance(historical_data, six_month_ago_idx + 1))
                  ELSE ratios
           r2  == Put(r1, "price_performance_1y",
                      PricePerformance(historical_data, 1))
       IN  IF market_data # NoneObject /\ market_data # EmptyFrame
           THEN LET stock_return  == r2["price_performance_1y"]
                    market_return == PricePerformance(market_data, 1)
                IN  IF stock_return # None /\ market_return # None
                    THEN Put(r2, "relative_strength", stock_return - market_return)
                    ELSE r2
           ELSE r2

\* the growth metrics read from info, and the PE to Growth score
GrowthRatios(ratios, info) ==
  LET r1 == [ revenue_growth         |-> Get(info, "revenueGrowth", None),
              earnings_growth        |-> Get(info, "earningsGrowth", None),
              eps_growth             |-> Get(info, "earningsQuarterlyGrowth", None),
              gross_margin           |-> Get(info, "grossMargins", None),
              operating_margin       |-> Get(info, "operatingMargins", None),
              analyst_recommendation |-> Get(info, "recommendationMean", None) ]
            @@ ratios
  IN  IF r1["pe_ratio"] # None /\ r1["earnings_growth"] # None
         /\ r1["earnings_growth"] > 0
      THEN LET pe_growth_factor10 ==
                 IF r1["pe_ratio"] > 0
                 THEN (r1["earnings_growth"] * 10000) \div r1["pe_ratio"]
                 ELSE 0
           IN  Put(r1, "pe_growth", Min(1500, pe_growth_factor10))
      ELSE r1

\* current_ratio filled in from the balance sheet when info has none
StatementRatios(ratios, income_stmt, balance_sheet) ==
  IF income_stmt # NoneObject /\ balance_sheet # NoneObject
     /\ income_stmt # EmptyDict /\ balance_sheet # EmptyDict
     /\ ratios["current_ratio"] = None
     /\ "TotalCurrentAssets" \in DOMAIN balance_sheet
     /\ "TotalCurrentLiabilities" \in DOMAIN balance_sheet
  THEN LET curr_assets == balance_sheet["TotalCurrentAssets"]
           curr_liab   == balance_sheet["TotalCurrentLiabilities"]
       IN  [ratios EXCEPT !["current_ratio"] =
              IF Truthy(curr_liab) THEN Quot(curr_assets, curr_liab) ELSE None]
  ELSE ratios

\* variant: the growth and momentum metrics added under either analysis type
CalculateRatios_anytype(stock_data, analysis_type) ==
  IF stock_data = NoneObject THEN NoneObject
  ELSE IF DOMAIN stock_data.info = {} THEN NoneObject
  ELSE StatementRatios(
         IF stock_data.historical_data # NoneObject
         THEN GrowthRatios(
                MomentumRatios(BasicRatios(stock_data.info),
                               stock_data.historical_data,
                               stock_data.market_data), stock_data.info)
         ELSE BasicRatios(stock_data.info),
         stock_data.income_stmt, stock_data.balance_sheet)

CalculateRatios(stock_data, analysis_type) ==
  IF stock_data = NoneObject THEN NoneObject
  ELSE IF DOMAIN stock_data.info = {} THEN NoneObject
  ELSE LET info == stock_data.info
           r0   == BasicRatios(info)
           r1   == IF analysis_type = "growth_momentum"
                      /\ stock_data.historical_data # NoneObject
                   THEN GrowthRatios(
                          MomentumRatios(r0, stock_data.historical_data,
                                         stock_data.market_data), info)
                   ELSE r0
       IN  StatementRatios(r1, stock_data.income_stmt, stock_data.balance_sheet)

(***************************************************************************)
(* StockAnalyzer.get_ratio_explanation.  The explanation text is kept as   *)
(* the record of the parts it is formatted from.                           *)
(***************************************************************************)
\* f"{x:.2f}": x rounded to hundredths
Fmt2(x) == IF x >= 0 THEN (x + 5) \div 10 ELSE -((-x + 5) \div 10)

\* ratio_criteria[rating]
RECURSIVE CriteriaRange(_, _, _)
CriteriaRange(ratio_criteria, rating, i) ==
  IF ratio_criteria[i][1] = rating
  THEN << ratio_criteria[i][2], ratio_criteria[i][3] >>
  ELSE CriteriaRange(ratio_criteria, rating, i + 1)

\* analysis_type.replace('_', '/')
Perspective(analysis_type) ==
  IF analysis_type = "growth_momentum" THEN "growth/momentum" ELSE analysis_type

\* "{criteria['great'][0]:.2f}-{criteria['great'][1] if ... != inf else 'inf'}"
IdealRange(ratio_criteria) ==
  LET great == CriteriaRange(ratio_criteria, "great", 1)
  IN  IF great[2] # INF THEN [lo |-> Fmt2(great[1]), hi |-> great[2]]
      ELSE [lo |-> Fmt2(great[1]), inf |-> "inf"]

GetRatioExplanation(self, ratio_name, ratio_value, rating, analysis_type) ==
  LET descriptions == IF analysis_type = "value" THEN self.value_descriptions
                      ELSE self.growth_momentum_descriptions
  IN  IF ratio_name \notin DOMAIN descriptions \/ ratio_value = None
      THEN [text |-> "Insufficient data available."]
      ELSE IF analysis_type # "value"
              /\ ratio_name \notin DOMAIN self.growth_momentum_criteria
      THEN [text |-> "This metric is not applicable for growth/momentum analysis."]
      ELSE LET ratio_info == descriptions[ratio_name]
               criteria   == IF analysis_type = "value"
                             THEN self.value_criteria[ratio_name]
                             ELSE self.growth_momentum_criteria[ratio_name]
               head == [ name           |-> ratio_info.name,
                         value          |-> Fmt2(ratio_value),
                         interpretation |-> ratio_info.interpretation,
                         perspective    |-> Perspective(analysis_type) ]
           IN  IF rating = "great"
               THEN head @@ [verdict |-> "EXCELLENT", ideal |-> [text |-> ratio_info.ideal]]
               ELSE IF rating = "good"
               THEN head @@ [verdict |-> "GOOD", ideal |-> IdealRange(criteria)]
               ELSE head @@ [verdict |-> "CONCERNING", ideal |-> IdealRange(criteria)]

(***************************************************************************)
(* StockAnalyzer.generate_report.  The result is the analyzer after the    *)
(* call and the value returned; the timestamp of the report, a reading of  *)
(* the wall clock that no decision uses, is left out of the record.        *)
(***************************************************************************)
\* variant: no explanation for a ratio rated no_buy
RECURSIVE ExplainLoop_skip(_, _, _, _, _, _, _)
ExplainLoop_skip(self, items, ratios, rating_details, analysis_type, i, acc) ==
  IF i > Len(items) THEN acc
  ELSE LET ratio_name == items[i]
       IN  IF ratio_name \in DOMAIN ratios /\ ratios[ratio_name] # None
              /\ rating_details[ratio_name] # "no_buy"
           THEN ExplainLoop_skip(self, items, ratios, rating_details, analysis_type,
                  i + 1,
                  Put(acc, ratio_name,
                      GetRatioExplanation(self, ratio_name, ratios[ratio_name],
                                          rating_details[ratio_name], analysis_type)))
           ELSE ExplainLoop_skip(self, items, ratios, rating_details, analysis_type,
                                 i + 1, acc)

\* for ratio_name, rating in rating_details.items(): ...
RECURSIVE ExplainLoop(_, _, _, _, _, _, _)
ExplainLoop(self, items, ratios, rating_details, analysis_type, i, acc) ==
  IF i > Len(items) THEN acc
  ELSE LET ratio_name == items[i]
       IN  IF ratio_name \in DOMAIN ratios /\ ratios[ratio_name] # None
           THEN ExplainLoop(self, items, ratios, rating_details, analysis_type, i + 1,
                  Put(acc, ratio_name,
                      GetRatioExplanation(self, ratio_name, ratios[ratio_name],
                                          rating_details[ratio_name], analysis_type)))
           ELSE ExplainLoop(self, items, ratios, rating_details, analysis_type,
                            i + 1, acc)

\* str results: the two error strings of generate_report
CouldNotRetrieve(ticker)  == [str |-> << "Could not retrieve data for", ticker >>]
CouldNotCalculate(ticker) == [str |-> << "Could not calculate ratios for", ticker >>]

\* isinstance(report, str)
IsStr(report) == "str" \in DOMAIN report

\* self.classification_criteria / self.ratio_descriptions of the analysis type
SetCriteria(self, analysis_type) ==
  IF analysis_type = "value"
  THEN [self EXCEPT !.classification_criteria = self.value_criteria,
                    !.ratio_descriptions = self.value_descriptions]
  ELSE [self EXCEPT !.classification_criteria = self.growth_momentum_criteria,
                    !.ratio_descriptions = self.growth_momentum_descriptions]

\* StockReport(ticker=..., ..., analysis_type=...)
StockReport(self, ticker, analysis_type, stock_data, ratios, classified) ==
  [ ticker             |-> ticker,
    company_name       |-> Get(stock_data.info, "longName", ticker),
    current_price      |-> stock_data.current_price,
    currency           |-> Get(stock_data.info, "currency", "USD"),
    classification     |-> classified[1],
    ratios             |-> ratios,
    rating_details     |-> classified[2],
    ratio_explanations |->
      ExplainLoop(self, Items(classified[2], RATIO_KEYS), ratios, classified[2],
                  analysis_type, 1, EmptyDict),
    analysis_type      |-> analysis_type ]

\* generate_report once the ratios are calculated
ReportOfRatios(self, ticker, analysis_type, stock_data, ratios) ==
  IF ratios = NoneObject \/ DOMAIN ratios = {}
  THEN [self |-> self, ret |-> CouldNotCalculate(ticker)]
  ELSE [self |-> self,
        ret  |-> StockReport(self, ticker, analysis_type, stock_data, ratios,
                             ClassifyStock(self, ratios, analysis_type))]

\* variant: the criteria of the analysis type set before the fetch is examined
ReportOfData_setfirst(self, ticker, analysis_type, stock_data) ==
  IF stock_data = NoneObject
  THEN [self |-> SetCriteria(self, analysis_type), ret |-> CouldNotRetrieve(ticker)]
  ELSE ReportOfRatios(SetCriteria(self, analysis_type), ticker, analysis_type,
                      stock_data, CalculateRatios(stock_data, analysis_type))

\* generate_report once the data is fetched
ReportOfData(self, ticker, analysis_type, stock_data) ==
  IF stock_data = NoneObject
  THEN [self |-> self, ret |-> CouldNotRetrieve(ticker)]
  ELSE ReportOfRatios(SetCriteria(self, analysis_type), ticker, analysis_type,
                      stock_data, CalculateRatios(stock_data, analysis_type))

GenerateReport(self, ticker, analysis_type, api) ==
  ReportOfData(self, ticker, analysis_type, FetchStockData(ticker, api))

(***************************************************************************)
(* StockAnalyzer.analyze_multiple_stocks.  apis[i] is what the data        *)
(* provider yields for the i-th ticker of the list.  The result is the     *)
(* analyzer after the call, whether the call returned or raised, the       *)
(* value returned and the summary table it printed.  A dict that is        *)
(* iterated is kept with the insertion order of its keys.                  *)
(***************************************************************************)
ResultCategories(analysis_type) ==
  IF analysis_type = "value"
  THEN [ c \in {"GREAT BUY", "GOOD BUY", "NO BUY", "ERROR"} |-> << >> ]
  ELSE [ c \in {"GREAT GROWTH OPPORTUNITY", "GOOD GROWTH OPPORTUNITY",
                "POOR GROWTH OPPORTUNITY", "ERROR"} |-> << >> ]

\* the body of the loop over the tickers: the report of one ticker filed
\* under its category and in all_reports
FileReport(acc, ticker, gen) ==
  IF IsStr(gen.ret)
  THEN [ acc EXCEPT
           !.self = gen.self,
           !.results = [@ EXCEPT !["ERROR"] = Append(@, ticker)],
           !.keys = IF ticker \in DOMAIN acc.all_reports THEN @ ELSE Append(@, ticker),
           !.all_reports = Put(@, ticker, gen.ret) ]
  ELSE IF gen.ret.classification \notin DOMAIN acc.results
  THEN [ acc EXCEPT !.self = gen.self, !.raised = "KeyError" ]
  ELSE [ acc EXCEPT
           !.self = gen.self,
           !.results = [@ EXCEPT ![gen.ret.classification] = Append(@, ticker)],
           !.keys = IF ticker \in DOMAIN acc.all_reports THEN @ ELSE Append(@, ticker),
           !.all_reports = Put(@, ticker, gen.ret) ]

\* for ticker in tickers: report = self.generate_report(ticker, analysis_type) ...
RECURSIVE ProcessTickers(_, _, _, _, _)
ProcessTickers(tickers, apis, analysis_type, i, acc) ==
  IF i > Len(tickers) \/ acc.raised # "" THEN acc
  ELSE ProcessTickers(tickers, apis, analysis_type, i + 1,
         FileReport([acc EXCEPT !.fetched = Append(@, tickers[i])], tickers[i],
                    GenerateReport(acc.self, tickers[i], analysis_type, apis[i])))

\* list(ratings).count(rating)
CountRating(rating_details, rating) ==
  Cardinality({ k \in DOMAIN rating_details : rating_details[k] = rating })

\* f"{great_count + good_count}/{total} ({(great_count + good_count)/total*100:.1f}%)"
Strength(strong, total) ==
  [ strong |-> strong, total |-> total,
    percent_tenths |-> ((strong * 10000) \div total + 5) \div 10 ]

\* for ticker, report in all_reports.items(): summary_data.append(...)
RECURSIVE SummaryLoop(_, _, _, _)
SummaryLoop(keys, all_reports, i, acc) ==
  IF i > Len(keys) \/ acc.raised # "" THEN acc
  ELSE LET ticker == keys[i]
           report == all_reports[ticker]
       IN  IF IsStr(report)
           THEN SummaryLoop(keys, all_reports, i + 1,
                  [ acc EXCEPT !.summary_data =
                      Append(@, [ ticker |-> ticker, classification |-> "ERROR",
                                  price_or_error |-> report ]) ])
           ELSE LET great_count == CountRating(report.rating_details, "great")
                    good_count  == CountRating(report.rating_details, "good")
                    total       == Cardinality(DOMAIN report.rating_details)
                IN  IF total = 0
                    THEN [ acc EXCEPT !.raised = "ZeroDivisionError" ]
                    ELSE SummaryLoop(keys, all_reports, i + 1,
                           [ acc EXCEPT !.summary_data =
                               Append(@, [ ticker |-> ticker,
                                           classification |-> report.classification,
                                           price_or_error |-> report.current_price,
                                           strength |->
                                             Strength(great_count + good_count,
                                                      total) ]) ])

\* what analyze_multiple_stocks yields once both loops are done
Outcome(processed, summary) ==
  IF processed.raised # ""
  THEN [ self |-> processed.self, raised |-> processed.raised,
         ret |-> NoneObject, summary_data |-> << >>,
         fetched |-> processed.fetched ]
  ELSE IF summary.raised # ""
  THEN [ self |-> processed.self, raised |-> summary.raised,
         ret |-> NoneObject, summary_data |-> << >>,
         fetched |-> processed.fetched ]
  ELSE [ self |-> processed.self, raised |-> "",
         ret |-> [ results          |-> processed.results,
                   all_reports      |-> processed.all_reports,
                   all_reports_keys |-> processed.keys ],
         summary_data |-> summary.summary_data,
         fetched |-> processed.fetched ]

\* the summary table of the processed tickers
Summarize(processed) ==
  Outcome(processed,
          IF processed.raised # "" THEN [ summary_data |-> << >>, raised |-> "" ]
          ELSE SummaryLoop(processed.keys, processed.all_reports, 1,
                           [ summary_data |-> << >>, raised |-> "" ]))

AnalyzeMultipleStocks(self, tickers, analysis_type, apis) ==
  Summarize(ProcessTickers(tickers, apis, analysis_type, 1,
              [ self        |-> self,
                results     |-> ResultCategories(analysis_type),
                all_reports |-> EmptyDict,
                keys        |-> << >>,
                fetched     |-> << >>,
                raised      |-> "" ]))

(***************************************************************************)
(* StockAnalyzer.generate_detailed_comparison.  all_reports is the dict    *)
(* and keys its keys in insertion order.  The table is kept as tabulate    *)
(* receives it: the header row and the data rows, each a sequence of       *)
(* cells; a formatted value is the record of its number and its label.     *)
(***************************************************************************)
NoValidReports(analysis_type) ==
  [str |-> << "No valid reports for", analysis_type, "analysis to compare." >>]

\* variant: every report that is not an error string compared
ValidReports_anytype(all_reports, keys, analysis_type) ==
  SelectSeq(keys, LAMBDA ticker : ~IsStr(all_reports[ticker]))

\* the tickers of valid_reports, in the order of the dict
ValidReports(all_reports, keys, analysis_type) ==
  SelectSeq(keys, LAMBDA ticker :
    /\ ~IsStr(all_reports[ticker])
    /\ all_reports[ticker].analysis_type = analysis_type)

\* formatted_value of one metric of one report
ComparisonCell(report, metric) ==
  IF Get(report.ratios, metric, None) # None
  THEN IF Get(report.rating_details, metric, "N/A") = "great"
       THEN [value |-> Fmt2(report.ratios[metric]), label |-> "(Great)"]
       ELSE IF Get(report.rating_details, metric, "N/A") = "good"
       THEN [value |-> Fmt2(report.ratios[metric]), label |-> "(Good)"]
       ELSE [value |-> Fmt2(report.ratios[metric]), label |-> "(Poor)"]
  ELSE [value |-> None, label |-> "N/A"]

\* descriptions.get(metric, {}).get('name', ...); every metric of a criteria
\* table has a description with a name
MetricName(descriptions, metric) ==
  IF metric \in DOMAIN descriptions THEN descriptions[metric].name ELSE metric

\* the row of one metric
ComparisonRow(descriptions, metric, valid, all_reports) ==
  << [text |-> MetricName(descriptions, metric)] >> \o
  [ i \in 1..Len(valid) |-> ComparisonCell(all_reports[valid[i]], metric) ]

\* the table of the valid reports over the metrics
ComparisonTable(descriptions, metrics, valid, all_reports) ==
  [ headers |->
      << [text |-> "Metric"] >> \o
      [ i \in 1..Len(valid) |->
          [company_name |-> all_reports[valid[i]].company_name,
           ticker       |-> valid[i]] ],
    rows |->
      [ m \in 1..Len(metrics) |->
          ComparisonRow(descriptions, metrics[m], valid, all_reports) ] \o
      << << [text |-> "**Classification**"] >> \o
         [ i \in 1..Len(valid) |->
             [text |-> all_reports[valid[i]].classification] ] >> ]

\* generate_detailed_comparison once valid_reports is built
CompareValid(self, valid, all_reports, analysis_type) ==
  IF valid = << >> THEN NoValidReports(analysis_type)
  ELSE IF analysis_type = "value"
  THEN ComparisonTable(self.value_descriptions,
                       Items(self.value_criteria, VALUE_KEYS), valid, all_reports)
  ELSE ComparisonTable(self.growth_momentum_descriptions,
                       Items(self.growth_momentum_criteria, GROWTH_KEYS),
                       valid, all_reports)

GenerateDetailedComparison(self, all_reports, keys, analysis_type) ==
  CompareValid(self, ValidReports(all_reports, keys, analysis_type),
               all_reports, analysis_type)

(***************************************************************************)
(* analyze_stock and StockAnalyzer.test_connection.  conn_api is what the  *)
(* data provider yields for the test ticker, api what it yields for the    *)
(* requested ticker, display_ok whether print_report displays the report   *)
(* or raises.  The result is the value returned, the tickers requested     *)
(* from fetch_stock_data in order, the lines printed, and the exception    *)
(* that left the function, if any.                                         *)
(***************************************************************************)
\* test_ticker = "AAPL"
TEST_TICKER == "AAPL"

\* if stock_data and stock_data.info and 'shortName' in stock_data.info
ConnectionValid(stock_data) ==
  IF stock_data = NoneObject THEN FALSE
  ELSE DOMAIN stock_data.info # {} /\ "shortName" \in DOMAIN stock_data.info

TestConnection(conn_api) == ConnectionValid(FetchStockData(TEST_TICKER, conn_api))

\* analyze_stock after the connection test: the report generated and shown
ReportStep(ticker, gen, display_ok) ==
  IF IsStr(gen.ret)
  THEN [ raised |-> "", ret |-> NoneObject,
         fetched |-> << TEST_TICKER, ticker >>,
         printed |-> << "Connection successful", "Error" >> ]
  ELSE IF ~display_ok
  THEN [ raised |-> "Exception", ret |-> NoneObject,
         fetched |-> << TEST_TICKER, ticker >>,
         printed |-> << "Connection successful" >> ]
  ELSE [ raised |-> "", ret |-> gen.ret,
         fetched |-> << TEST_TICKER, ticker >>,
         printed |-> << "Connection successful", "report" >> ]

\* the body of the try block of analyze_stock
AnalyzeStockBody(ticker, analysis_type, connected, api, display_ok) ==
  IF ~connected
  THEN [ raised |-> "", ret |-> NoneObject, fetched |-> << TEST_TICKER >>,
         printed |-> << "Connection issue", "Cannot proceed" >> ]
  ELSE ReportStep(ticker, GenerateReport(NewAnalyzer, ticker, analysis_type, api),
                  display_ok)

\* except Exception as e: ... return None
Handled(body) ==
  IF body.raised = "" THEN body
  ELSE [ body EXCEPT !.raised = "", !.ret = NoneObject,
                     !.printed = Append(@, "Error analyzing") ]

\* variant: the report generated before the connection is tested
AnalyzeStock_reportfirst(ticker, analysis_type, conn_api, api, display_ok) ==
  LET step == Handled(ReportStep(ticker,
                        GenerateReport(NewAnalyzer, ticker, analysis_type, api),
                        display_ok))
  IN  [ step EXCEPT !.fetched = << ticker, TEST_TICKER >>,
                    !.ret = IF TestConnection(conn_api) THEN @ ELSE NoneObject ]

AnalyzeStock(ticker, analysis_type, conn_api, api, display_ok) ==
  Handled(AnalyzeStockBody(ticker, analysis_type, TestConnection(conn_api),
                           api, display_ok))

(***************************************************************************)
(* Bounds of the inputs.                                                   *)
(***************************************************************************)
\* ratios with a value that no range of their criteria holds, per input
MaxUnrated == 1
\* rotations of a rating pattern over the keys of a table
MaxOffset == 1
\* length of the ticker list of analyze_multiple_stocks
MaxTickers == 2

(***************************************************************************)
(* Inputs.  A ratio value is drawn per rating from the range of the        *)
(* rating: its lower bound ("lo"), the value next to it ("in") and the     *)
(* last value below its upper bound ("hi"); "out" draws a value that no    *)
(* range of the ratio holds.                                               *)
(***************************************************************************)
TICKERS == {"AAPL", "MSFT"}

PICKS == {"lo", "in", "hi"}

CriteriaOf(analysis_type) ==
  IF analysis_type = "value" THEN VALUE_CRITERIA ELSE GROWTH_MOMENTUM_CRITERIA

KeysOf(analysis_type) ==
  IF analysis_type = "value" THEN VALUE_KEYS ELSE GROWTH_KEYS

OtherType(analysis_type) ==
  IF analysis_type = "value" THEN "growth_momentum" ELSE "value"

\* the table row of a ratio name, whichever table has it
RowOf(ratio_name) ==
  IF ratio_name \in DOMAIN VALUE_CRITERIA THEN VALUE_CRITERIA[ratio_name]
  ELSE GROWTH_MOMENTUM_CRITERIA[ratio_name]

LowestBound(row)  ==
  CHOOSE b \in { row[i][2] : i \in 1..Len(row) } :
    \A i \in 1..Len(row) : b <= row[i][2]
HighestBound(row) ==
  CHOOSE b \in { row[i][3] : i \in 1..Len(row) } :
    \A i \in 1..Len(row) : b >= row[i][3]

ValueFor(row, kind, pick) ==
  IF kind = "none" THEN None
  ELSE IF kind = "out"
  THEN IF pick = "hi" /\ HighestBound(row) # INF THEN HighestBound(row)
       ELSE IF LowestBound(row) # -INF THEN LowestBound(row) - 1
       ELSE IF HighestBound(row) # INF THEN HighestBound(row)
       ELSE None
  ELSE LET r  == CriteriaRange(row, kind, 1)
           lo == r[1]
           hi == r[2]
       IN  IF pick = "lo" THEN (IF lo # -INF THEN lo ELSE hi - 1000)
           ELSE IF pick = "in" THEN (IF lo # -INF THEN lo + 1 ELSE hi - 2)
           ELSE (IF hi # INF THEN hi - 1 ELSE lo + 1000)

\* the kind of the j-th key (from 0) of a pattern of g great, d good,
\* n no_buy and u unrated values
KindAt(j, g, d, n, u) ==
  IF j < g THEN "great"
  ELSE IF j < g + d THEN "good"
  ELSE IF j < g + d + n THEN "no_buy"
  ELSE IF j < g + d + n + u THEN "out"
  ELSE "none"

CountVectors(N) ==
  { v \in (0..N) \X (0..N) \X (0..N) \X (0..MaxUnrated) :
      v[1] + v[2] + v[3] + v[4] <= N }

\* a ratios dict for classify_stock: the pattern v rotated by offset over
\* the keys of the table of analysis_type; keys of kind "none" hold None or
\* are left out; foreign adds a key of the other table
RatiosInput(analysis_type, v, offset, pick, absent, foreign) ==
  LET keys == KeysOf(analysis_type)
      N    == Len(keys)
      kind == [ i \in 1..N |-> KindAt((i - 1 + offset) % N, v[1], v[2], v[3], v[4]) ]
      val  == [ i \in 1..N |-> ValueFor(CriteriaOf(analysis_type)[keys[i]],
                                        kind[i], pick) ]
      own  == { i \in 1..N : ~(absent /\ val[i] = None) }
      base == [ k \in { keys[i] : i \in own } |->
                  val[CHOOSE i \in own : keys[i] = k] ]
      fkey == KeysOf(OtherType(analysis_type))[1 + offset]
  IN  IF foreign = "absent" THEN base
      ELSE IF foreign = "none" THEN Put(base, fkey, None)
      ELSE Put(base, fkey, ValueFor(RowOf(fkey), "great", pick))

\* how the keys without a value and the key of the other table are drawn
VARIANTS ==
  { [absent |-> FALSE, foreign |-> "absent"], [absent |-> TRUE, foreign |-> "absent"],
    [absent |-> TRUE, foreign |-> "value"],
    [absent |-> FALSE, foreign |-> "none"], [absent |-> FALSE, foreign |-> "value"] }

\* the ratios drawn for classify_stock: every count vector with each pick,
\* and the vectors of at most one ratio per kind with each rotation and variant
PLAIN == [absent |-> FALSE, foreign |-> "absent"]

RatiosInputs(analysis_type) ==
  { RatiosInput(analysis_type, v, 0, pick, PLAIN.absent, PLAIN.foreign) :
      v \in CountVectors(Len(KeysOf(analysis_type))), pick \in PICKS } \cup
  { RatiosInput(analysis_type, v, offset, pick, x.absent, x.foreign) :
      v \in { w \in CountVectors(Len(KeysOf(analysis_type))) :
                w[1] <= 1 /\ w[2] <= 1 /\ w[3] <= 1 },
      offset \in 0..MaxOffset, pick \in PICKS, x \in VARIANTS }

\* the info field each ratio is read from
INFO_FIELD ==
  [ pe_ratio |-> "trailingPE", pb_ratio |-> "priceToBook",
    ps_ratio |-> "priceToSalesTrailing12Months", debt_to_equity |-> "debtToEquity",
    roe |-> "returnOnEquity", current_ratio |-> "currentRatio",
    dividend_yield |-> "dividendYield", profit_margin |-> "profitMargins",
    peg_ratio |-> "pegRatio", revenue_growth |-> "revenueGrowth",
    earnings_growth |-> "earningsGrowth", eps_growth |-> "earningsQuarterlyGrowth",
    gross_margin |-> "grossMargins", operating_margin |-> "operatingMargins",
    analyst_recommendation |-> "recommendationMean" ]

INFO_RATIOS ==
  VALUE_KEYS \o << "revenue_growth", "earnings_growth", "eps_growth",
                   "gross_margin", "operating_margin", "analyst_recommendation" >>

\* rating patterns of the stocks the data provider serves
PROFILES ==
  << << "great" >>, << "good" >>, << "no_buy" >>, << "none" >>, << "out" >>,
     << "great", "good", "no_buy", "none", "out" >>,
     << "great", "great", "good", "no_buy" >> >>

\* the info dict of a stock of profile p: fields of kind "none" hold None
\* when named (named = TRUE) and are missing otherwise; debtToEquity is in
\* percent; a stock without trailingPE has a forwardPE
InfoInput(p, offset, pick, named) ==
  LET tpl  == PROFILES[p]
      kind == [ i \in 1..Len(INFO_RATIOS) |->
                  tpl[((i - 1 + offset) % Len(tpl)) + 1] ]
      val  == [ i \in 1..Len(INFO_RATIOS) |->
                  LET x == ValueFor(RowOf(INFO_RATIOS[i]), kind[i], pick)
                  IN  IF INFO_RATIOS[i] = "debt_to_equity" /\ x # None
                      THEN x * 100 ELSE x ]
      own  == { i \in 1..Len(INFO_RATIOS) : named \/ val[i] # None }
      base == [ f \in { INFO_FIELD[INFO_RATIOS[i]] : i \in own } |->
                  val[CHOOSE i \in own : INFO_FIELD[INFO_RATIOS[i]] = f] ]
      pe   == IF "trailingPE" \in DOMAIN base THEN base
              ELSE Put(base, "forwardPE", 12000)
      nm   == IF named
              THEN Put(Put(pe, "shortName", "Short"), "longName", "Long Inc.")
              ELSE pe
  IN  Put(Put(nm, "currency", "USD"),
          IF named THEN "currentPrice" ELSE "regularMarketPrice", 101500)

INFOS ==
  { Raise, EmptyDict } \cup
  { InfoInput(p, offset, pick, named) :
      p \in 1..Len(PROFILES), offset \in 0..MaxOffset, pick \in PICKS,
      named \in BOOLEAN }

\* price history of the stock and of the market benchmark
FEEDS ==
  { [history |-> Raise, market |-> Raise],
    [history |-> Raise, market |-> [Close |-> << 100000, 110000 >>]],
    [history |-> [Close |-> << 100000, 130000 >>], market |-> Raise],
    [history |-> EmptyFrame, market |-> [Close |-> << 100000, 110000 >>]],
    [history |-> [Close |-> << 100000, 130000 >>], market |-> EmptyFrame],
    [history |-> [Close |-> << 100000, 90000, 115000 >>],
     market  |-> [Close |-> << 100000, 110000 >>]],
    [history |-> [Close |-> << 100000, 104000 >>],
     market  |-> [Close |-> << 0, 110000 >>]],
    [history |-> [Close |-> << 0, 104000 >>],
     market  |-> [Close |-> << 100000, 110000 >>]] }

STATEMENTS ==
  { Raise, EmptyStatements,
    [ income_stmt   |-> [TotalRevenue |-> 5000000],
      balance_sheet |-> Raise,
      cash_flow     |-> Raise ],
    [ income_stmt   |-> [TotalRevenue |-> 5000000],
      balance_sheet |-> [TotalCurrentAssets |-> 2000000,
                         TotalCurrentLiabilities |-> 1000000],
      cash_flow     |-> EmptyDict ],
    [ income_stmt   |-> [TotalRevenue |-> 5000000],
      balance_sheet |-> [TotalCurrentAssets |-> 2000000,
                         TotalCurrentLiabilities |-> 0],
      cash_flow     |-> EmptyDict ] }

Api(i, s, f) ==
  [info |-> i, statements |-> s, history |-> f.history, market |-> f.market]

\* a year of prices of the stock and of the benchmark
PLAIN_FEED ==
  [history |-> [Close |-> << 100000, 90000, 130000 >>],
   market  |-> [Close |-> << 100000, 110000 >>]]

\* the responses drawn for generate_report: every info dict with plain
\* statements and prices, and every statement and price feed with the stocks
\* of three profiles
APIS ==
  { Api(i, EmptyStatements, PLAIN_FEED) : i \in INFOS } \cup
  { Api(InfoInput(p, 0, "in", p # 4), s, f) :
      p \in {1, 4, 6}, s \in STATEMENTS, f \in FEEDS }

\* the responses drawn for the tickers of analyze_multiple_stocks: a failed
\* request, and stocks of four profiles without and with prices
MULTI_APIS ==
  { Api(Raise, Raise, [history |-> Raise, market |-> Raise]),
    Api(InfoInput(1, 0, "in", TRUE), EmptyStatements, PLAIN_FEED),
    Api(InfoInput(3, 0, "in", TRUE), EmptyStatements, PLAIN_FEED),
    Api(InfoInput(4, 0, "in", TRUE), EmptyStatements,
        [history |-> EmptyFrame, market |-> EmptyFrame]),
    Api(InfoInput(7, 0, "in", TRUE), EmptyStatements, PLAIN_FEED) }

\* the responses drawn for the connection test: a failed request, a stock
\* without and a stock with a shortName
CONN_APIS ==
  { Api(Raise, Raise, [history |-> Raise, market |-> Raise]),
    Api(InfoInput(1, 0, "in", FALSE), EmptyStatements, PLAIN_FEED),
    Api(InfoInput(1, 0, "in", TRUE), EmptyStatements, PLAIN_FEED) }

\* the responses behind the reports that are compared: those of
\* analyze_multiple_stocks and a stock with a ratio outside every range
COMPARE_APIS ==
  MULTI_APIS \cup { Api(InfoInput(6, 0, "in", TRUE), EmptyStatements, PLAIN_FEED) }

\* the lists of up to n different elements of S
DistinctSeqs(S, n) ==
  { q \in UNION { [1..m -> S] : m \in 0..n } :
      \A i, j \in DOMAIN q : i # j => q[i] # q[j] }

\* the report or error string of each ticker of an all_reports dict whose
\* entries were generated under the analysis types types[i] from the
\* responses apis[i]
ReportsOf(tickers, types, apis) ==
  [ t \in Range(tickers) |->
      GenerateReport(NewAnalyzer, t,
                     types[CHOOSE i \in DOMAIN tickers : tickers[i] = t],
                     apis[CHOOSE i \in DOMAIN tickers : tickers[i] = t]).ret ]

SeqsUpTo(S, n) == UNION { [1..m -> S] : m \in 0..n }

(***************************************************************************)
(* The state: one StockAnalyzer and its caller.  pc is the caller's        *)
(* position: "ready" to make a call, or holding what the last call         *)
(* "returned" or "raised".  call is the last call and its arguments, ret   *)
(* the value it returned, printed the summary table it printed, fetched    *)
(* the tickers it requested from fetch_stock_data, in the order of the     *)
(* requests.                                                               *)
(***************************************************************************)
VARIABLES self, pc, call, ret, printed, fetched

vars == << self, pc, call, ret, printed, fetched >>

NoCall == [op |-> "none"]

Init ==
  /\ self = NewAnalyzer
  /\ pc = "ready"
  /\ call = NoCall
  /\ ret = NoneObject
  /\ printed = << >>
  /\ fetched = << >>

\* analyzer.classify_stock(ratios, analysis_type)
CallClassifyStock ==
  /\ pc = "ready"
  /\ \E analysis_type \in ANALYSIS_TYPES :
     \E ratios \in { NoneObject } \cup
          RatiosInputs(analysis_type) :
       /\ call' = [op |-> "classify_stock", ratios |-> ratios,
                   analysis_type |-> analysis_type]
       /\ ret' = ClassifyStock(self, ratios, analysis_type)
  /\ pc' = "returned"
  /\ UNCHANGED << self, printed, fetched >>

\* fetch_stock_data(ticker)
CallFetchStockData ==
  /\ pc = "ready"
  /\ \E ticker \in TICKERS, api \in APIS :
       /\ call' = [op |-> "fetch_stock_data", ticker |-> ticker, api |-> api]
       /\ ret' = FetchStockData(ticker, api)
       /\ fetched' = << ticker >>
  /\ pc' = "returned"
  /\ UNCHANGED << self, printed >>

\* analyzer.generate_report(ticker, analysis_type)
CallGenerateReport ==
  /\ pc = "ready"
  /\ \E ticker \in TICKERS, analysis_type \in ANALYSIS_TYPES, api \in APIS :
     \E gen \in { GenerateReport(self, ticker, analysis_type, api) } :
           /\ call' = [op |-> "generate_report", ticker |-> ticker,
                       analysis_type |-> analysis_type, api |-> api]
           /\ self' = gen.self
           /\ ret' = gen.ret
           /\ fetched' = << ticker >>
  /\ pc' = "returned"
  /\ UNCHANGED printed

\* analyzer.analyze_multiple_stocks(tickers, analysis_type)
CallAnalyzeMultipleStocks ==
  /\ pc = "ready"
  /\ \E analysis_type \in ANALYSIS_TYPES :
     \E tickers \in SeqsUpTo(TICKERS, MaxTickers) :
     \E apis \in [1..Len(tickers) -> MULTI_APIS] :
     \E done \in { AnalyzeMultipleStocks(self, tickers, analysis_type, apis) } :
           /\ call' = [op |-> "analyze_multiple_stocks", tickers |-> tickers,
                       analysis_type |-> analysis_type, apis |-> apis]
           /\ self' = done.self
           /\ ret' = done.ret
           /\ printed' = done.summary_data
           /\ fetched' = done.fetched
           /\ pc' = IF done.raised = "" THEN "returned" ELSE done.raised

\* analyze_stock(ticker, analysis_type), on an analyzer of its own
CallAnalyzeStock ==
  /\ pc = "ready"
  /\ \E ticker \in TICKERS, analysis_type \in ANALYSIS_TYPES :
     \E conn_api \in CONN_APIS, api \in MULTI_APIS, display_ok \in BOOLEAN :
     \E done \in { AnalyzeStock(ticker, analysis_type, conn_api, api, display_ok) } :
           /\ call' = [op |-> "analyze_stock", ticker |-> ticker,
                       analysis_type |-> analysis_type, conn_api |-> conn_api,
                       api |-> api, display_ok |-> display_ok]
           /\ ret' = done.ret
           /\ printed' = done.printed
           /\ fetched' = done.fetched
           /\ pc' = IF done.raised = "" THEN "returned" ELSE done.raised
  /\ UNCHANGED self

\* analyzer.generate_detailed_comparison(all_reports, analysis_type)
CallGenerateDetailedComparison ==
  /\ pc = "ready"
  /\ \E analysis_type \in ANALYSIS_TYPES :
     \E tickers \in DistinctSeqs(TICKERS, MaxTickers) :
     \E types \in [1..Len(tickers) -> ANALYSIS_TYPES] :
     \E apis \in [1..Len(tickers) -> COMPARE_APIS] :
     \E all_reports \in { ReportsOf(tickers, types, apis) } :
           /\ call' = [op |-> "generate_detailed_comparison",
                       all_reports |-> all_reports, keys |-> tickers,
                       analysis_type |-> analysis_type]
           /\ ret' = GenerateDetailedComparison(self, all_reports, tickers,
                                                analysis_type)
  /\ pc' = "returned"
  /\ UNCHANGED << self, printed, fetched >>

\* the caller goes on to its next call on the same analyzer
Continue ==
  /\ pc # "ready"
  /\ pc' = "ready"
  /\ call' = NoCall
  /\ ret' = NoneObject
  /\ printed' = << >>
  /\ fetched' = << >>
  /\ UNCHANGED self

Next ==
  \/ CallClassifyStock
  \/ CallFetchStockData
  \/ CallGenerateReport
  \/ CallAnalyzeMultipleStocks
  \/ CallAnalyzeStock
  \/ CallGenerateDetailedComparison
  \/ Continue

Spec == Init /\ [][Next]_vars

(***************************************************************************)
(* Properties.  A state holds a classification when classify_stock has     *)
(* returned or generate_report has returned a report.                      *)
(***************************************************************************)
RATINGS == {"great", "good", "no_buy"}

HasClassification ==
  /\ pc = "returned"
  /\ \/ call.op = "classify_stock"
     \/ call.op = "generate_report" /\ ~IsStr(ret)

ClassifiedRatios  == IF call.op = "classify_stock" THEN call.ratios ELSE ret.ratios
ClassifiedLabel   == IF call.op = "classify_stock" THEN ret[1] ELSE ret.classification
ClassifiedDetails == IF call.op = "classify_stock" THEN ret[2] ELSE ret.rating_details
ClassifiedType    == call.analysis_type

\* the ratios of the input that have a value and a row in the table of the type
Rateable ==
  IF ClassifiedRatios = NoneObject THEN {}
  ELSE { k \in DOMAIN ClassifiedRatios :
           ClassifiedRatios[k] # None /\ k \in DOMAIN CriteriaOf(ClassifiedType) }

\* lower(r) <= v < upper(r) in the table of the type
InRangeOf(analysis_type, k, r, v) ==
  LET range == CriteriaRange(CriteriaOf(analysis_type)[k], r, 1)
  IN  range[1] <= v /\ v < range[2]

NumRated(r) ==
  Cardinality({ k \in DOMAIN ClassifiedDetails : ClassifiedDetails[k] = r })

\* C1: every ratio that has a value and a row in the criteria table of the
\* analysis type gets one of the ratings great, good, no_buy, whatever its
\* value is.
C1Claim ==
  HasClassification =>
    \A k \in Rateable :
      k \in DOMAIN ClassifiedDetails /\ ClassifiedDetails[k] \in RATINGS

\* C2: a ratio value v gets the rating r exactly when lower(r) <= v < upper(r)
\* for the range of r in the criteria table; so a value on the boundary shared
\* by two ranges gets the rating of the range starting there.
C2Theorem ==
  HasClassification =>
    \A k \in Rateable : \A r \in RATINGS :
      (k \in DOMAIN ClassifiedDetails /\ ClassifiedDetails[k] = r)
        <=> InRangeOf(ClassifiedType, k, r, ClassifiedRatios[k])

\* pe_ratio 15 is rated good and roe 0.15 is rated great
C2Witness ==
  /\ HasClassification
  /\ ClassifiedType = "value"
  /\ {"pe_ratio", "roe"} \subseteq DOMAIN ClassifiedDetails
  /\ ClassifiedRatios["pe_ratio"] = 15000
  /\ ClassifiedDetails["pe_ratio"] = "good"
  /\ ClassifiedRatios["roe"] = 150
  /\ ClassifiedDetails["roe"] = "great"

\* C3: under 'value' with at least one rated ratio the label is GREAT BUY iff
\* great/total >= 0.5 and no_buy/total <= 0.2, otherwise GOOD BUY iff
\* (great+good)/total >= 0.6 and no_buy/total <= 0.3, otherwise NO BUY.
C3Theorem ==
  (HasClassification /\ ClassifiedType = "value" /\ DOMAIN ClassifiedDetails # {}) =>
    LET great  == NumRated("great")
        good   == NumRated("good")
        no_buy == NumRated("no_buy")
        total  == great + good + no_buy
    IN  ClassifiedLabel =
          IF 100 * great >= 50 * total /\ 100 * no_buy <= 20 * total
          THEN "GREAT BUY"
          ELSE IF 100 * (great + good) >= 60 * total /\ 100 * no_buy <= 30 * total
               THEN "GOOD BUY"
               ELSE "NO BUY"

\* 6 of 9 rated good or better with 3 no_buy (a third): NO BUY by the limit
\* on no_buy alone
C3Witness ==
  /\ HasClassification
  /\ ClassifiedType = "value"
  /\ NumRated("great") = 5
  /\ NumRated("good") = 1
  /\ NumRated("no_buy") = 3
  /\ ClassifiedLabel = "NO BUY"

\* C4: under 'growth_momentum' with at least one rated ratio the label is
\* GREAT GROWTH OPPORTUNITY iff great/total >= 0.4 and no_buy/total <= 0.3,
\* otherwise GOOD GROWTH OPPORTUNITY iff (great+good)/total >= 0.5 and
\* no_buy/total <= 0.4, otherwise POOR GROWTH OPPORTUNITY.
C4Theorem ==
  (HasClassification /\ ClassifiedType = "growth_momentum"
     /\ DOMAIN ClassifiedDetails # {}) =>
    LET great  == NumRated("great")
        good   == NumRated("good")
        no_buy == NumRated("no_buy")
        total  == great + good + no_buy
    IN  ClassifiedLabel =
          IF 100 * great >= 40 * total /\ 100 * no_buy <= 30 * total
          THEN "GREAT GROWTH OPPORTUNITY"
          ELSE IF 100 * (great + good) >= 50 * total /\ 100 * no_buy <= 40 * total
               THEN "GOOD GROWTH OPPORTUNITY"
               ELSE "POOR GROWTH OPPORTUNITY"

\* exactly 40% great and exactly 30% no_buy of ten rated ratios
C4Witness ==
  /\ HasClassification
  /\ ClassifiedType = "growth_momentum"
  /\ NumRated("great") = 4
  /\ NumRated("good") = 3
  /\ NumRated("no_buy") = 3
  /\ ClassifiedLabel = "GREAT GROWTH OPPORTUNITY"

LABELS ==
  [ value           |-> {"GREAT BUY", "GOOD BUY", "NO BUY"},
    growth_momentum |-> {"GREAT GROWTH OPPORTUNITY", "GOOD GROWTH OPPORTUNITY",
                         "POOR GROWTH OPPORTUNITY"} ]

MultipleReturned == pc = "returned" /\ call.op = "analyze_multiple_stocks"

\* C5: after analyze_multiple_stocks returns, each ticker of the input list is
\* in exactly one category list of results, the one named by its report's
\* classification or ERROR for an error string; all_reports has an entry for
\* exactly the input tickers; the keys of results are the three labels of the
\* analysis type plus ERROR.
C5Claim ==
  MultipleReturned =>
    /\ DOMAIN ret.results = LABELS[call.analysis_type] \cup {"ERROR"}
    /\ DOMAIN ret.all_reports = Range(call.tickers)
    /\ \A t \in Range(call.tickers) :
         LET category == IF IsStr(ret.all_reports[t]) THEN "ERROR"
                         ELSE ret.all_reports[t].classification
         IN  \A c \in DOMAIN ret.results :
               (t \in Range(ret.results[c])) <=> (c = category)

\* values a ratio without criteria under the type is changed to
ProbeValues(k) ==
  { None } \cup { ValueFor(RowOf(k), kind, "lo") : kind \in RATINGS \cup {"out"} }

Without(d, k) == [ x \in DOMAIN d \ {k} |-> d[x] ]

\* the first and the last key of the other table
ProbeKeys(analysis_type) ==
  { KeysOf(OtherType(analysis_type))[1],
    KeysOf(OtherType(analysis_type))[Len(KeysOf(OtherType(analysis_type)))] }

\* C6: no ratio name is in both criteria tables, and what classify_stock
\* returns for an analysis type is unchanged when a ratio without criteria
\* under that type is added, removed or given another value: it is what it
\* returns for the ratios that have criteria under the type alone.
C6Theorem ==
  /\ DOMAIN VALUE_CRITERIA \cap DOMAIN GROWTH_MOMENTUM_CRITERIA = {}
  /\ (pc = "returned" /\ call.op = "classify_stock" /\ call.ratios # NoneObject) =>
       /\ ClassifyStock(self,
            [ k \in DOMAIN call.ratios \cap DOMAIN CriteriaOf(call.analysis_type)
                |-> call.ratios[k] ],
            call.analysis_type) = ret
       /\ \A k \in ProbeKeys(call.analysis_type) :
            /\ ClassifyStock(self, Without(call.ratios, k), call.analysis_type) = ret
            /\ \A x \in ProbeValues(k) :
                 ClassifyStock(self, Put(call.ratios, k, x), call.analysis_type) = ret

\* a 'value' classification of ratios that hold a revenue_growth the growth
\* table rates great
C6Witness ==
  /\ pc = "returned"
  /\ call.op = "classify_stock"
  /\ call.analysis_type = "value"
  /\ call.ratios # NoneObject
  /\ "revenue_growth" \in DOMAIN call.ratios
  /\ call.ratios["revenue_growth"] = 200
  /\ ret[1] = "GOOD BUY"

\* C7: what a classify_stock or generate_report call yields depends only on
\* the data and analysis type of that call: it is what a newly constructed
\* analyzer yields for them, whatever calls were made before.
C7Theorem ==
  pc = "returned" =>
    /\ call.op = "classify_stock" =>
         ret = ClassifyStock(NewAnalyzer, call.ratios, call.analysis_type)
    /\ call.op = "generate_report" =>
         LET fresh == GenerateReport(NewAnalyzer, call.ticker,
                                     call.analysis_type, call.api).ret
         IN  IF IsStr(ret) THEN fresh = ret
             ELSE /\ ~IsStr(fresh)
                  /\ fresh.classification = ret.classification
                  /\ fresh.rating_details = ret.rating_details
                  /\ fresh.ratio_explanations = ret.ratio_explanations
    /\ call.op = "analyze_multiple_stocks" =>
         ret = AnalyzeMultipleStocks(NewAnalyzer, call.tickers,
                                     call.analysis_type, call.apis).ret

\* a 'value' classification by an analyzer whose last report was a
\* growth_momentum one
C7Witness ==
  /\ pc = "returned"
  /\ call.op = "classify_stock"
  /\ call.analysis_type = "value"
  /\ self.classification_criteria = GROWTH_MOMENTUM_CRITERIA
  /\ ret[1] = "GREAT BUY"

\* the reports the last call returned
ReturnedReports ==
  IF pc = "returned" /\ call.op = "generate_report" /\ ~IsStr(ret) THEN { ret }
  ELSE IF MultipleReturned
  THEN { ret.all_reports[t] : t \in { u \in DOMAIN ret.all_reports :
                                        ~IsStr(ret.all_reports[u]) } }
  ELSE {}

\* C8: in every report of generate_report, classification and rating_details
\* are what classify_stock returns for the report's ratios and analysis type,
\* every key of rating_details is a key of ratios with a value, and
\* ratio_explanations has exactly the keys of rating_details.
C8Theorem ==
  \A report \in ReturnedReports :
    /\ << report.classification, report.rating_details >>
         = ClassifyStock(self, report.ratios, report.analysis_type)
    /\ \A k \in DOMAIN report.rating_details :
         k \in DOMAIN report.ratios /\ report.ratios[k] # None
    /\ DOMAIN report.ratio_explanations = DOMAIN report.rating_details

\* a report with rated ratios, among them a no_buy, next to a ratio without a
\* value and a ratio with a value and no rating
C8Witness ==
  \E report \in ReturnedReports :
    /\ \E k \in DOMAIN report.rating_details : report.rating_details[k] = "no_buy"
    /\ \E k \in DOMAIN report.ratios : report.ratios[k] = None
    /\ \E k \in DOMAIN report.ratios \ DOMAIN report.rating_details :
         report.ratios[k] # None

\* no ratio of the input receives a rating
NoneRated ==
  \A k \in Rateable : \A r \in RATINGS :
    ~InRangeOf(ClassifiedType, k, r, ClassifiedRatios[k])

\* C9: classify_stock returns 'Insufficient data for classification' exactly
\* when no ratio receives a rating, and rating_details is then empty; with at
\* least one rated ratio it returns one of the three labels of the type.
C9Theorem ==
  HasClassification =>
    /\ (ClassifiedLabel = INSUFFICIENT) <=> NoneRated
    /\ NoneRated => ClassifiedDetails = EmptyDict
    /\ ~NoneRated => ClassifiedLabel \in LABELS[ClassifiedType]

\* insufficient data for ratios that hold a value of a rated name that
\* matches no range
C9Witness ==
  /\ HasClassification
  /\ Rateable # {}
  /\ ClassifiedLabel = INSUFFICIENT
  /\ ClassifiedDetails = EmptyDict

\* C10: generate_report never returns None: it returns 'Could not retrieve
\* data for <ticker>' when fetch_stock_data returns None and otherwise a
\* StockReport with the ticker and analysis type of the call; a failed fetch
\* leaves classification_criteria and ratio_descriptions as they were.
C10Theorem ==
  [][ (pc = "ready" /\ call'.op = "generate_report") =>
        LET failed == FetchStockData(call'.ticker, call'.api) = NoneObject
        IN  /\ ret' # NoneObject
            /\ failed =>
                 /\ ret' = CouldNotRetrieve(call'.ticker)
                 /\ self'.classification_criteria = self.classification_criteria
                 /\ self'.ratio_descriptions = self.ratio_descriptions
            /\ ~failed =>
                 /\ ~IsStr(ret')
                 /\ ret'.ticker = call'.ticker
                 /\ ret'.analysis_type = call'.analysis_type ]_vars

\* a failed fetch of a 'value' report by an analyzer whose criteria are the
\* growth_momentum ones
C10Witness ==
  /\ pc = "returned"
  /\ call.op = "generate_report"
  /\ call.analysis_type = "value"
  /\ ret = CouldNotRetrieve(call.ticker)
  /\ self.classification_criteria = GROWTH_MOMENTUM_CRITERIA
  /\ self.ratio_descriptions = GROWTH_MOMENTUM_DESCRIPTIONS

(***************************************************************************)
(* analyze_multiple_stocks: tickers whose data cannot be retrieved.        *)
(***************************************************************************)
\* the i-th ticker of the list is one whose data could not be retrieved
FetchFailed(i) == FetchStockData(call.tickers[i], call.apis[i]) = NoneObject

\* ticker is in the category list
Listed(results, category, ticker) ==
  \E j \in DOMAIN results[category] : results[category][j] = ticker

\* C11: when analyze_multiple_stocks has returned, every ticker of the list
\* was analyzed, in the order of the list; a ticker whose data could not be
\* retrieved is listed under "ERROR" and its all_reports entry is its error
\* string; and every other ticker has the category and the report it gets
\* from generate_report on its own data, whatever failed around it.
C11Claim ==
  (pc = "returned" /\ call.op = "analyze_multiple_stocks") =>
    /\ fetched = call.tickers
    /\ \A i \in DOMAIN call.tickers :
         IF FetchFailed(i)
         THEN /\ Listed(ret.results, "ERROR", call.tickers[i])
              /\ ret.all_reports[call.tickers[i]] = CouldNotRetrieve(call.tickers[i])
         ELSE (\E j \in DOMAIN call.tickers : j # i /\ FetchFailed(j)) =>
                \E own \in { GenerateReport(NewAnalyzer, call.tickers[i],
                                            call.analysis_type, call.apis[i]).ret } :
                  /\ ret.all_reports[call.tickers[i]] = own
                  /\ Listed(ret.results, own.classification, call.tickers[i])

(***************************************************************************)
(* fetch_stock_data                                                        *)
(***************************************************************************)
FetchReturned == pc = "returned" /\ call.op = "fetch_stock_data"

\* the basic info could not be retrieved or is empty
InfoFailed(api) == api.info = Raise \/ DOMAIN api.info = {}

\* C12: fetch_stock_data never raises; it returns None exactly when the basic
\* info could not be retrieved or is empty, and otherwise a StockData of the
\* ticker with the info it retrieved, in which the statements, the price
\* history and the market benchmark are what was retrieved, or empty tables
\* when their retrieval failed.
C12Theorem ==
  (pc # "ready" /\ call.op = "fetch_stock_data") =>
    /\ pc = "returned"
    /\ (ret = NoneObject) <=> InfoFailed(call.api)
    /\ ~InfoFailed(call.api) =>
         /\ ret.ticker = call.ticker
         /\ ret.info = call.api.info
         /\ IF StatementsFailed(call.api)
            THEN /\ ret.income_stmt = EmptyDict
                 /\ ret.balance_sheet = EmptyDict
                 /\ ret.cash_flow = EmptyDict
            ELSE /\ ret.income_stmt = call.api.statements.income_stmt
                 /\ ret.balance_sheet = call.api.statements.balance_sheet
                 /\ ret.cash_flow = call.api.statements.cash_flow
         /\ ret.historical_data =
              IF call.api.history = Raise THEN EmptyFrame ELSE call.api.history
         /\ ret.market_data =
              IF call.api.market = Raise THEN EmptyFrame ELSE call.api.market

\* a StockData returned although the price history could not be retrieved,
\* with the market benchmark that was retrieved
C12Witness ==
  /\ FetchReturned
  /\ ~InfoFailed(call.api)
  /\ call.api.history = Raise
  /\ call.api.market # Raise
  /\ StatementsFailed(call.api)
  /\ ret # NoneObject
  /\ ret.historical_data = EmptyFrame
  /\ ret.market_data = call.api.market
  /\ ret.income_stmt = EmptyDict

(***************************************************************************)
(* calculate_ratios: the number of named ratios.  The ratios of a report   *)
(* are the dict calculate_ratios returned for the fetched stock data.      *)
(***************************************************************************)
ReportReturned ==
  pc = "returned" /\ call.op = "generate_report" /\ ~IsStr(ret)

NumRatios == Cardinality(DOMAIN ret.ratios)

\* the names calculate_ratios gives under growth_momentum analysis
GROWTH_RATIO_NAMES ==
  Range(VALUE_KEYS) \cup
  { "price_performance_6m", "price_performance_1y", "relative_strength",
    "revenue_growth", "earnings_growth", "eps_growth", "gross_margin",
    "operating_margin", "analyst_recommendation", "pe_growth" }

\* C13 as stated: calculate_ratios returns exactly 9 named ratios under
\* value analysis and never more than 15 under growth_momentum analysis.
C13Claim ==
  ReportReturned =>
    IF call.analysis_type = "value" THEN NumRatios = 9 ELSE NumRatios <= 15

\* C13, amended: calculate_ratios returns exactly 9 named ratios under value
\* analysis, the value ratios, and never more than 19 under growth_momentum
\* analysis: the 9 value ratios, 3 price metrics, 6 growth metrics and
\* pe_growth.
C13Theorem ==
  ReportReturned =>
    IF call.analysis_type = "value"
    THEN NumRatios = 9 /\ DOMAIN ret.ratios = Range(VALUE_KEYS)
    ELSE /\ NumRatios <= 19
         /\ Range(VALUE_KEYS) \subseteq DOMAIN ret.ratios
         /\ DOMAIN ret.ratios \subseteq GROWTH_RATIO_NAMES

\* a growth_momentum report of a stock with prices, a benchmark and positive
\* earnings growth: all 19 names
C13Witness ==
  /\ ReportReturned
  /\ call.analysis_type = "growth_momentum"
  /\ DOMAIN ret.ratios = GROWTH_RATIO_NAMES
  /\ NumRatios = 19

(***************************************************************************)
(* analyze_stock                                                           *)
(***************************************************************************)
AnalyzeStockDone == pc # "ready" /\ call.op = "analyze_stock"

\* the data provider served the test ticker with a shortName
ConnectionOk ==
  /\ call.conn_api.info # Raise
  /\ "shortName" \in DOMAIN call.conn_api.info

\* what generate_report of a fresh analyzer yields for the requested ticker
OwnReport ==
  GenerateReport(NewAnalyzer, call.ticker, call.analysis_type, call.api).ret

\* C14: analyze_stock never lets an exception out; its first request to the
\* data provider is the connection test, and the requested ticker is only
\* fetched after it; when the connection test fails the ticker is not
\* fetched, no report is shown and None is returned; otherwise None is
\* returned when generate_report yields an error string or showing the
\* report raises, and the report of the ticker is returned in every other
\* case.
C14Theorem ==
  AnalyzeStockDone =>
    /\ pc = "returned"
    /\ Len(fetched) >= 1 /\ fetched[1] = TEST_TICKER
    /\ IF ~ConnectionOk
       THEN /\ fetched = << TEST_TICKER >>
            /\ ret = NoneObject
            /\ \A i \in DOMAIN printed : printed[i] # "report"
       ELSE /\ fetched = << TEST_TICKER, call.ticker >>
            /\ IF IsStr(OwnReport) \/ ~call.display_ok
               THEN ret = NoneObject
               ELSE ret = OwnReport

\* a report returned for a ticker other than the test ticker, fetched after
\* the connection test
C14Witness ==
  /\ AnalyzeStockDone
  /\ pc = "returned"
  /\ ConnectionOk
  /\ call.ticker # TEST_TICKER
  /\ fetched = << TEST_TICKER, call.ticker >>
  /\ ret # NoneObject
  /\ ret.ticker = call.ticker

(***************************************************************************)
(* analyze_multiple_stocks: the call always returns.                       *)
(***************************************************************************)
\* C15: analyze_multiple_stocks returns (results, all_reports) without
\* raising for every list of tickers and every outcome of the data fetch;
\* a stock none of whose ratios could be rated still has a category list
\* that holds it and a row in the summary table.
C15Claim ==
  (pc # "ready" /\ call.op = "analyze_multiple_stocks") =>
    /\ pc = "returned"
    /\ \A t \in DOMAIN ret.all_reports :
         /\ \E c \in DOMAIN ret.results : Listed(ret.results, c, t)
         /\ \E i \in DOMAIN printed : printed[i].ticker = t

(***************************************************************************)
(* classify_stock: lowering a metric for which higher is better.           *)
(***************************************************************************)
HIGHER_IS_BETTER ==
  { "revenue_growth", "earnings_growth", "eps_growth", "gross_margin",
    "operating_margin", "price_performance_6m", "price_performance_1y",
    "relative_strength", "pe_growth" }

\* POOR < GOOD < GREAT GROWTH OPPORTUNITY; no classification ranks lowest
GrowthRank(label) ==
  IF label = "GREAT GROWTH OPPORTUNITY" THEN 3
  ELSE IF label = "GOOD GROWTH OPPORTUNITY" THEN 2
  ELSE IF label = "POOR GROWTH OPPORTUNITY" THEN 1
  ELSE 0

\* the finite bounds of the ranges of a ratio, and the values just below them
LoweredValues(k) ==
  LET row == GROWTH_MOMENTUM_CRITERIA[k]
      bounds == { row[i][j] : i \in 1..Len(row), j \in 2..3 } \ { INF, -INF }
  IN  bounds \cup { b - 1 : b \in bounds }

\* C16: under growth_momentum analysis, replacing the value of a metric for
\* which higher is better by a lower value, all other ratios unchanged,
\* never gives a better classification.
C16Claim ==
  (pc = "returned" /\ call.op = "classify_stock"
     /\ call.analysis_type = "growth_momentum" /\ call.ratios # NoneObject) =>
    \A k \in DOMAIN call.ratios \cap HIGHER_IS_BETTER :
      call.ratios[k] # None =>
        \A w \in LoweredValues(k) :
          w < call.ratios[k] =>
            GrowthRank(ClassifyStock(self, Put(call.ratios, k, w),
                                     "growth_momentum")[1])
              <= GrowthRank(ret[1])

(***************************************************************************)
(* The thresholds of the two analysis types on the same rating counts.     *)
(***************************************************************************)
\* the rating counts of the classification the state holds
ClassifiedCounts == [ r \in RATINGS |-> NumRated(r) ]

ValueOutcome ==
  FinalClassification(ClassifiedCounts, Cardinality(DOMAIN ClassifiedDetails),
                      "value")

GrowthOutcome ==
  FinalClassification(ClassifiedCounts, Cardinality(DOMAIN ClassifiedDetails),
                      "growth_momentum")

\* C17: for the rating counts of any classification, the label returned is
\* the one the thresholds of its analysis type give; when the value
\* thresholds give GREAT BUY the growth_momentum thresholds give GREAT GROWTH
\* OPPORTUNITY, and when the value thresholds give GOOD BUY or GREAT BUY the
\* growth_momentum thresholds give GOOD or GREAT GROWTH OPPORTUNITY.
C17Theorem ==
  (HasClassification /\ DOMAIN ClassifiedDetails # {}) =>
    /\ ClassifiedLabel =
         IF ClassifiedType = "value" THEN ValueOutcome ELSE GrowthOutcome
    /\ ValueOutcome = "GREAT BUY" => GrowthOutcome = "GREAT GROWTH OPPORTUNITY"
    /\ ValueOutcome \in {"GREAT BUY", "GOOD BUY"} =>
         GrowthOutcome \in {"GREAT GROWTH OPPORTUNITY", "GOOD GROWTH OPPORTUNITY"}

\* counts the value thresholds call a GREAT BUY, classified under
\* growth_momentum analysis with one fifth of no_buy ratings
C17Witness ==
  /\ HasClassification
  /\ ClassifiedType = "growth_momentum"
  /\ NumRated("no_buy") > 0
  /\ 5 * NumRated("no_buy") = Cardinality(DOMAIN ClassifiedDetails)
  /\ ValueOutcome = "GREAT BUY"
  /\ ClassifiedLabel = "GREAT GROWTH OPPORTUNITY"

(***************************************************************************)
(* classify_stock: a better rating of one ratio.                           *)
(***************************************************************************)
\* NO BUY / POOR < GOOD < GREAT, under either analysis type
LabelRank(label) ==
  IF label \in {"GREAT BUY", "GREAT GROWTH OPPORTUNITY"} THEN 3
  ELSE IF label \in {"GOOD BUY", "GOOD GROWTH OPPORTUNITY"} THEN 2
  ELSE 1

RatingRank(rating) ==
  IF rating = "great" THEN 3 ELSE IF rating = "good" THEN 2 ELSE 1

\* the classification of the same ratios with ratio k moved into the range
\* of rating
Rerated(k, rating) ==
  ClassifyStock(self,
                Put(ClassifiedRatios, k,
                    ValueFor(CriteriaOf(ClassifiedType)[k], rating, "lo")),
                ClassifiedType)

\* C18: moving one rated ratio into the range of a better rating keeps the
\* set of rated ratios, gives that ratio the better rating and never gives a
\* lower classification, under either analysis type; and whenever the label
\* is the top one, the counts meet the conditions of the middle label too.
C18Theorem ==
  (HasClassification /\ DOMAIN ClassifiedDetails # {}) =>
    /\ \A k \in DOMAIN ClassifiedDetails :
       \A rating \in RATINGS :
         RatingRank(rating) > RatingRank(ClassifiedDetails[k]) =>
           /\ Rerated(k, rating)[2] = [ClassifiedDetails EXCEPT ![k] = rating]
           /\ LabelRank(Rerated(k, rating)[1]) >= LabelRank(ClassifiedLabel)
    /\ LabelRank(ClassifiedLabel) = 3 =>
         LET total == Cardinality(DOMAIN ClassifiedDetails)
             strong == NumRated("great") + NumRated("good")
         IN  IF ClassifiedType = "value"
             THEN 100 * strong >= 60 * total /\ 100 * NumRated("no_buy") <= 30 * total
             ELSE 100 * strong >= 50 * total /\ 100 * NumRated("no_buy") <= 40 * total

\* a classification below the top label that a better rating of one of its
\* ratios raises
C18Witness ==
  /\ HasClassification
  /\ LabelRank(ClassifiedLabel) < 3
  /\ \E k \in DOMAIN ClassifiedDetails :
       /\ ClassifiedDetails[k] = "no_buy"
       /\ LabelRank(Rerated(k, "good")[1]) > LabelRank(ClassifiedLabel)
       /\ LabelRank(Rerated(k, "great")[1]) = 3

(***************************************************************************)
(* generate_detailed_comparison                                            *)
(***************************************************************************)
\* a comparison was requested and a table built
TableReturned ==
  pc = "returned" /\ call.op = "generate_detailed_comparison" /\ ~IsStr(ret)

\* the tickers whose reports are to be compared: not an error string, and
\* of the requested analysis type
Compared ==
  SelectSeq(call.keys, LAMBDA t :
    /\ "str" \notin DOMAIN call.all_reports[t]
    /\ call.all_reports[t].analysis_type = call.analysis_type)

\* the cell of metric row m for the i-th compared report
CellAt(m, i) == ret.rows[m][i + 1]

\* the number of "(Poor)" cells of the i-th compared report
PoorCells(i) ==
  Cardinality({ m \in 1..(Len(ret.rows) - 1) : CellAt(m, i).label = "(Poor)" })

\* C19: in the table, the cell of a metric for a report is labelled
\* "(Great)", "(Good)" or "(Poor)" exactly when the report rates the metric
\* great, good or no_buy, and is "N/A" when the metric has no value; the
\* "(Poor)" cells of a report are as many as its no_buy ratings.
C19Claim ==
  TableReturned =>
    \A i \in 1..Len(Compared) :
      LET report == call.all_reports[Compared[i]]
      IN  /\ \A m \in 1..Len(KeysOf(call.analysis_type)) :
               LET metric == KeysOf(call.analysis_type)[m]
                   rating == Get(report.rating_details, metric, "N/A")
               IN  /\ CellAt(m, i).label = "(Great)" <=> rating = "great"
                   /\ CellAt(m, i).label = "(Good)" <=> rating = "good"
                   /\ CellAt(m, i).label = "(Poor)" <=> rating = "no_buy"
                   /\ Get(report.ratios, metric, None) = None =>
                        CellAt(m, i).label = "N/A"
          /\ PoorCells(i) = CountRating(report.rating_details, "no_buy")

ComparisonDone == pc # "ready" /\ call.op = "generate_detailed_comparison"

\* C20: generate_detailed_comparison compares the reports that are not
\* error strings and whose analysis_type is the requested one, in the order
\* of the dict; when there is none it returns "No valid reports for <type>
\* analysis to compare." and no table; otherwise the header has the metric
\* column and one column per compared report, naming it, and the rows are
\* one per metric of the criteria of the requested type, in the order of the
\* criteria, followed by the classification row, each with one cell per
\* compared report.
C20Theorem ==
  ComparisonDone =>
    /\ pc = "returned"
    /\ IF Compared = << >>
       THEN ret = [str |-> << "No valid reports for", call.analysis_type,
                              "analysis to compare." >>]
       ELSE /\ DOMAIN ret = {"headers", "rows"}
            /\ Len(ret.headers) = 1 + Len(Compared)
            /\ \A i \in 1..Len(Compared) :
                 /\ ret.headers[i + 1].ticker = Compared[i]
                 /\ ret.headers[i + 1].company_name =
                      call.all_reports[Compared[i]].company_name
            /\ Len(ret.rows) = Len(KeysOf(call.analysis_type)) + 1
            /\ \A m \in 1..Len(ret.rows) : Len(ret.rows[m]) = 1 + Len(Compared)
            /\ \A m \in 1..Len(KeysOf(call.analysis_type)) :
                 ret.rows[m][1].text =
                   IF call.analysis_type = "value"
                   THEN VALUE_DESCRIPTIONS[VALUE_KEYS[m]].name
                   ELSE GROWTH_MOMENTUM_DESCRIPTIONS[GROWTH_KEYS[m]].name
            /\ ret.rows[Len(ret.rows)][1].text = "**Classification**"
            /\ \A i \in 1..Len(Compared) :
                 ret.rows[Len(ret.rows)][i + 1].text =
                   call.all_reports[Compared[i]].classification

\* a table of one compared report out of a dict that also holds a report of
\* the other analysis type
C20Witness ==
  /\ TableReturned
  /\ Len(call.keys) = 2
  /\ Len(Compared) = 1
  /\ Compared[1] = call.keys[2]
  /\ ~IsStr(call.all_reports[call.keys[1]])
  /\ call.all_reports[call.keys[1]].analysis_type # call.analysis_type
  /\ Len(ret.headers) = 2

====
